---------------------------- MODULE Spec2Model ----------------------------
(***************************************************************************)
(* Model of the two Meshroom nodes of GCPMarkerAdditions:                  *)
(*   - ImportMarkerFeatures   (ImportMarkerFeatures.py)                    *)
(*   - SfMTransformFromMarker (SfMTransformFromMarker.py)                  *)
(* Each node's processChunk is a sequential program; its steps are the     *)
(* actions below.  Files, child processes and their exit codes are the     *)
(* environment.                                                            *)
(***************************************************************************)
EXTENDS Integers, Sequences, FiniteSets, TLC

(***************************************************************************)
(* Bounds of the model and constants of the program.                       *)
(***************************************************************************)
\* largest number of rows of the marker-detection CSV
MaxRows == 3
\* size of one descriptor record: bytearray(128)
DescLen == 128
\* number of columns load_images reads of a row: row[0] .. row[4]
ImageCols == 5
\* number of columns load_coords requires of a row: len(item) < 4
CoordCols == 4

\* Python's None
None == "None"

(***************************************************************************)
(* Generic helpers.                                                        *)
(***************************************************************************)
Range(s) == {s[k] : k \in DOMAIN s}

SeqsUpTo(S, n) == UNION {[1..k -> S] : k \in 0..n}

\* a is a suffix of b
IsSuffix(a, b) ==
    /\ Len(a) <= Len(b)
    /\ SubSeq(b, Len(b) - Len(a) + 1, Len(b)) = a

(***************************************************************************)
(* The state of the two nodes.                                             *)
(***************************************************************************)
\* the state of ImportMarkerFeatures
VARIABLES
    ipc,            \* position in ImportMarkerFeatures.processChunk
    inputFile,      \* chunk.node.input.value: the view manifest (SfMData JSON)
    matchesFile,    \* chunk.node.matches.value: the marker-detection CSV
    lookup,         \* views_lookup: image file name -> viewId
    images,         \* the dict returned by load_images, in insertion order
    found_markers,  \* marker id -> count, in insertion order
    imgIdx,         \* position of the for loop over images (1-based)
    mkIdx,          \* position of the for loop over markers (1-based)
    feat,           \* the open feature file: what was written to the handle
    desc,           \* the open descriptor file: what was written to the handle
    featFiles,      \* feature files of the output folder, by viewId
    descFiles,      \* descriptor files of the output folder, by viewId
    ierror          \* the exception processChunk raised, or None

ivars == <<ipc, inputFile, matchesFile, lookup, images, found_markers, imgIdx,
           mkIdx, feat, desc, featFiles, descFiles, ierror>>

\* the state of SfMTransformFromMarker
VARIABLES
    tpc,              \* position in SfMTransformFromMarker.processChunk
    marker_source,    \* chunk.node.marker_source.value
    marker_ids_value, \* chunk.node.marker_ids.value, a string
    coordsFile,       \* the file at chunk.node.coordinates.file.value
    markersJson,      \* the file markers.json of the internal folder
    jsonRead,         \* markers.json was opened and loaded by get_markerids
    convertProc,      \* the structure-extraction process
    transformProc,    \* the aliceVision_sfmTransform process
    subprocess,       \* chunk.subprocess
    statProc,         \* chunk.statThread.proc
    marker_ids,       \* the list returned by get_markerids
    coords,           \* the dict returned by load_coords
    markers,          \* the dict joined in processChunk, in insertion order
    markers_cmd,      \* the --markers parameter, as its list of entries
    commandLine,      \* chunk.status.commandLine
    returnCode,       \* chunk.status.returnCode
    logFile,          \* the file at chunk.logFile
    terror            \* the exception processChunk raised, or None

tvars == <<tpc, marker_source, marker_ids_value, coordsFile, markersJson,
           jsonRead, convertProc, transformProc, subprocess, statProc,
           marker_ids, coords, markers, markers_cmd, commandLine, returnCode,
           logFile, terror>>

vars == <<ivars, tvars>>

(***************************************************************************)
(*                        ImportMarkerFeatures                             *)
(***************************************************************************)
\* image file names of the CSV
ImageNames == {"a.jpg", "b.jpg", "c.jpg"}

\* marker ids of the CSV: in the range of a descriptor record, just outside
\* it on both sides, and the negative indices Python accepts
MarkerIds == {-(DescLen + 1), -1, 0, DescLen - 1, DescLen}

\* one CSV row: markerX, markerY, imageFileName, markerID, markerSize
Row(img, id) == <<10, 20, img, id, 5>>

FullRows == {Row(img, id) : img \in ImageNames, id \in MarkerIds}

\* a row with fewer columns than load_images reads
ShortRows == {SubSeq(Row("a.jpg", 0), 1, ImageCols - 1)}

CsvFiles == SeqsUpTo(FullRows \cup ShortRows, MaxRows)

\* the views a manifest may list, in file order: path (directory, file
\* name) and viewId.  Two views may share a file name; no view is of c.jpg.
AllViews == <<[path |-> <<"d1", "a.jpg">>, viewId |-> "101"],
              [path |-> <<"d1", "b.jpg">>, viewId |-> "102"],
              [path |-> <<"d2", "a.jpg">>, viewId |-> "103"]>>

ViewIds == {AllViews[k].viewId : k \in DOMAIN AllViews}

\* the "views" arrays of the manifests: none, one, two or all of the views
Manifests == {<<>>, <<AllViews[1]>>, <<AllViews[2]>>,
              <<AllViews[1], AllViews[2]>>, AllViews}

NoFile == [exists |-> FALSE, content |-> <<>>]
File(c) == [exists |-> TRUE, content |-> c]

\* a file object: no open file, or an open one and what was written to it
Closed == [open |-> FALSE, written |-> <<>>]
Handle(w) == [open |-> TRUE, written |-> w]

\* os.path.basename
Basename(path) == path[Len(path)]

RECURSIVE load_viewids_from(_, _, _)
\* the for loop of load_viewids: a later view of the same file name wins
load_viewids_from(views, k, acc) ==
    IF k > Len(views) THEN acc
    ELSE load_viewids_from(views, k + 1,
            [n \in DOMAIN acc \cup {Basename(views[k].path)} |->
                IF n = Basename(views[k].path) THEN views[k].viewId ELSE acc[n]])

load_viewids(views) == load_viewids_from(views, 1, <<>>)

\* lookup.get(img)
LookupGet(lk, img) == IF img \in DOMAIN lk THEN lk[img] ELSE None

\* the list comprehension of load_images reads row[0] .. row[4] of every row
RowsReadable(rows) == \A k \in DOMAIN rows : Len(rows[k]) >= ImageCols

\* (row[2], float(row[0]), float(row[1]), float(row[4]), int(row[3]))
CsvItem(row) == <<row[3], row[1], row[2], row[5], row[4]>>

RECURSIVE FirstSeen(_, _, _)
\* the keys of the dict built from the rows, in insertion order
FirstSeen(rows, k, acc) ==
    IF k > Len(rows) THEN acc
    ELSE FirstSeen(rows, k + 1,
            IF CsvItem(rows[k])[1] \in Range(acc) THEN acc
            ELSE Append(acc, CsvItem(rows[k])[1]))

RECURSIVE MarkersOf(_, _, _)
\* images[img]: [x, y, size, id] of the rows of image img, in row order
MarkersOf(rows, img, k) ==
    IF k > Len(rows) THEN <<>>
    ELSE (IF CsvItem(rows[k])[1] = img
          THEN <<SubSeq(CsvItem(rows[k]), 2, 5)>> ELSE <<>>)
         \o MarkersOf(rows, img, k + 1)

load_images(rows) ==
    LET names == FirstSeen(rows, 1, <<>>)
    IN  [k \in DOMAIN names |->
            [name |-> names[k], markers |-> MarkersOf(rows, names[k], 1)]]

\* the id of a marker: marker[3]
MarkerId(marker) == marker[4]

RECURSIVE AllMarkerIds(_, _, _)
\* [marker[3] for img in images for marker in images[img]]
AllMarkerIds(imgs, i, acc) ==
    IF i > Len(imgs) THEN acc
    ELSE AllMarkerIds(imgs, i + 1,
            acc \o [k \in DOMAIN imgs[i].markers |-> MarkerId(imgs[i].markers[k])])

\* found_markers = {i: 0 for i in list(set(...))}: a mapping id -> 0
InitFoundMarkers(imgs) == [id \in Range(AllMarkerIds(imgs, 1, <<>>)) |-> 0]

RECURSIVE LittleEndian(_, _)
\* the k least significant bytes of n, least significant first
LittleEndian(n, k) ==
    IF k = 0 THEN <<>> ELSE <<n % 256>> \o LittleEndian(n \div 256, k - 1)

\* struct.pack('<Q', n): 8 bytes, least significant first
PackQ(n) == LittleEndian(n, 8)

\* data[index] = 255 on a bytearray of DescLen bytes: Python accepts the
\* indices -DescLen .. DescLen-1, and a negative one counts from the end
IndexOk(id) == -DescLen <= id /\ id < DescLen

ByteOffset(id) == IF id < 0 THEN id + DescLen ELSE id

\* a slip of Descriptor: the byte before the one of the id is set
DescriptorShifted(id) == [k \in 1..DescLen |-> IF k = ByteOffset(id) THEN 255 ELSE 0]

\* data = bytearray(128); data[id] = 255
Descriptor(id) == [k \in 1..DescLen |-> IF k = ByteOffset(id) + 1 THEN 255 ELSE 0]

\* "%.2f %.2f %.4f 0\n" % (marker[0], marker[1], marker[2])
FeatLine(marker) == <<marker[1], marker[2], marker[3], 0>>

\* the state of the node before processChunk, but for its inputs
IFresh ==
    /\ ipc = "start"
    /\ lookup = <<>>
    /\ images = <<>>
    /\ found_markers = <<>>
    /\ imgIdx = 0
    /\ mkIdx = 0
    /\ feat = Closed
    /\ desc = Closed
    /\ featFiles = [v \in ViewIds |-> NoFile]
    /\ descFiles = [v \in ViewIds |-> NoFile]
    /\ ierror = None

IInit ==
    /\ inputFile \in {NoFile} \cup {File(m) : m \in Manifests}
    /\ matchesFile \in {NoFile} \cup {File(c) : c \in CsvFiles}
    /\ IFresh

\* the node with no run of it in progress
IIdle ==
    /\ inputFile = NoFile
    /\ matchesFile = NoFile
    /\ IFresh

\* processChunk up to load_viewids: both input files must exist
ILoadViewids ==
    /\ UNCHANGED tvars
    /\ ipc = "start"
    /\ IF ~matchesFile.exists
       THEN /\ ipc' = "raised"
            /\ ierror' = "OSError: Marker features list file not found"
            /\ UNCHANGED lookup
       ELSE IF ~inputFile.exists
       THEN /\ ipc' = "raised"
            /\ ierror' = "Exception: View data file not found"
            /\ UNCHANGED lookup
       ELSE /\ ipc' = "load_images"
            /\ lookup' = load_viewids(inputFile.content)
            /\ UNCHANGED ierror
    /\ UNCHANGED <<inputFile, matchesFile, images, found_markers, imgIdx, mkIdx,
                   feat, desc, featFiles, descFiles>>

\* load_images: a row that lacks one of the five columns raises IndexError
\* out of the list comprehension
ILoadImages ==
    /\ UNCHANGED tvars
    /\ ipc = "load_images"
    /\ IF RowsReadable(matchesFile.content)
       THEN /\ images' = load_images(matchesFile.content)
            /\ ipc' = "write_describers"
            /\ UNCHANGED ierror
       ELSE /\ ipc' = "raised"
            /\ ierror' = "IndexError: list index out of range"
            /\ UNCHANGED images
    /\ UNCHANGED <<inputFile, matchesFile, lookup, found_markers, imgIdx, mkIdx,
                   feat, desc, featFiles, descFiles>>

\* write_describers up to the loop over the images
IStartWrite ==
    /\ UNCHANGED tvars
    /\ ipc = "write_describers"
    /\ found_markers' = InitFoundMarkers(images)
    /\ imgIdx' = 1
    /\ ipc' = "image"
    /\ UNCHANGED <<inputFile, matchesFile, lookup, images, mkIdx, feat, desc,
                   featFiles, descFiles, ierror>>

\* the image the loop is at
CurImage == images[imgIdx]
CurView == LookupGet(lookup, CurImage.name)

\* a slip of ISkipImage: break instead of continue
ISkipImageBreaks ==
    /\ UNCHANGED tvars
    /\ ipc = "image"
    /\ imgIdx <= Len(images)
    /\ CurView = None
    /\ imgIdx' = Len(images) + 1
    /\ UNCHANGED <<ipc, inputFile, matchesFile, lookup, images, found_markers,
                   mkIdx, feat, desc, featFiles, descFiles, ierror>>

\* an image without a view: continue
ISkipImage ==
    /\ UNCHANGED tvars
    /\ ipc = "image"
    /\ imgIdx <= Len(images)
    /\ CurView = None
    /\ imgIdx' = imgIdx + 1
    /\ UNCHANGED <<ipc, inputFile, matchesFile, lookup, images, found_markers,
                   mkIdx, feat, desc, featFiles, descFiles, ierror>>

\* open both files of the view (created or truncated) and write the count
IOpenImage ==
    /\ UNCHANGED tvars
    /\ ipc = "image"
    /\ imgIdx <= Len(images)
    /\ CurView # None
    /\ featFiles' = [featFiles EXCEPT ![CurView] = File(<<>>)]
    /\ descFiles' = [descFiles EXCEPT ![CurView] = File(<<>>)]
    /\ feat' = Handle(<<>>)
    /\ desc' = Handle(PackQ(Len(CurImage.markers)))
    /\ mkIdx' = 1
    /\ ipc' = "marker"
    /\ UNCHANGED <<inputFile, matchesFile, lookup, images, found_markers, imgIdx,
                   ierror>>

CurMarker == CurImage.markers[mkIdx]

\* one round of the loop over the markers of the image
IWriteMarker ==
    /\ UNCHANGED tvars
    /\ ipc = "marker"
    /\ mkIdx <= Len(CurImage.markers)
    /\ found_markers' = [found_markers EXCEPT ![MarkerId(CurMarker)] = @ + 1]
    /\ feat' = Handle(Append(feat.written, FeatLine(CurMarker)))
    /\ IF IndexOk(MarkerId(CurMarker))
       THEN /\ desc' = Handle(desc.written \o Descriptor(MarkerId(CurMarker)))
            /\ mkIdx' = mkIdx + 1
            /\ UNCHANGED <<ipc, ierror>>
       ELSE /\ ipc' = "raised"
            /\ ierror' = "IndexError: bytearray index out of range"
            /\ UNCHANGED <<desc, mkIdx>>
    /\ UNCHANGED <<inputFile, matchesFile, lookup, images, imgIdx, featFiles,
                   descFiles>>

\* desc.close(); feat.close(): what was written reaches the files
ICloseImage ==
    /\ UNCHANGED tvars
    /\ ipc = "marker"
    /\ mkIdx > Len(CurImage.markers)
    /\ descFiles' = [descFiles EXCEPT ![CurView] = File(desc.written)]
    /\ featFiles' = [featFiles EXCEPT ![CurView] = File(feat.written)]
    /\ desc' = Closed
    /\ feat' = Closed
    /\ imgIdx' = imgIdx + 1
    /\ ipc' = "image"
    /\ UNCHANGED <<inputFile, matchesFile, lookup, images, found_markers, mkIdx,
                   ierror>>

\* the markers report, and processChunk returns
IReport ==
    /\ UNCHANGED tvars
    /\ ipc = "image"
    /\ imgIdx > Len(images)
    /\ ipc' = "done"
    /\ UNCHANGED <<inputFile, matchesFile, lookup, images, found_markers, imgIdx,
                   mkIdx, feat, desc, featFiles, descFiles, ierror>>

INext ==
    \/ ILoadViewids
    \/ ILoadImages
    \/ IStartWrite
    \/ ISkipImage
    \/ IOpenImage
    \/ IWriteMarker
    \/ ICloseImage
    \/ IReport

(***************************************************************************)
(*                       SfMTransformFromMarker                            *)
(***************************************************************************)
\* largest number of entries of the structure array of markers.json
MaxStruct == 3
\* largest number of rows of the coordinate CSV
MaxCoordRows == 3
\* largest number of characters of the marker_ids parameter
MaxIdsLen == 4
\* largest number of characters the transform process writes to its log
MaxLog == 2

\* exit codes of a child process
ExitCodes == {0, 1}

NoProc == [state |-> "none", rc |-> 0]
Running == [state |-> "running", rc |-> 0]
Exited(rc) == [state |-> "exited", rc |-> rc]

(***************************************************************************)
(* get_markerids, manual mode: str.split(",") and int()                    *)
(***************************************************************************)
DigitChars == {"2", "3", "5", "7", "9"}

DigitVal(c) ==
    CASE c = "2" -> 2 [] c = "3" -> 3 [] c = "5" -> 5 [] c = "7" -> 7 [] c = "9" -> 9

RECURSIVE Split(_, _)
\* s.split(sep): the pieces between the separators, empty ones included
Split(s, sep) ==
    IF \A k \in DOMAIN s : s[k] # sep THEN <<s>>
    ELSE LET k == CHOOSE j \in DOMAIN s :
                    s[j] = sep /\ \A h \in 1..(j - 1) : s[h] # sep
         IN  <<SubSeq(s, 1, k - 1)>> \o Split(SubSeq(s, k + 1, Len(s)), sep)

RECURSIVE Strip(_)
\* s.strip(): int() ignores white space around the number
Strip(s) ==
    IF s = <<>> THEN s
    ELSE IF s[1] = " " THEN Strip(Tail(s))
    ELSE IF s[Len(s)] = " " THEN Strip(SubSeq(s, 1, Len(s) - 1))
    ELSE s

RECURSIVE DecimalValue(_)
DecimalValue(ds) ==
    IF ds = <<>> THEN 0
    ELSE 10 * DecimalValue(SubSeq(ds, 1, Len(ds) - 1)) + DigitVal(ds[Len(ds)])

IsDigits(ds) == ds # <<>> /\ \A k \in DOMAIN ds : ds[k] \in DigitChars

\* int(token): ok is FALSE where Python raises ValueError
PyInt(token) ==
    LET t == Strip(token)
        signed == t # <<>> /\ t[1] \in {"-", "+"}
        ds == IF signed THEN Tail(t) ELSE t
    IN  IF IsDigits(ds)
        THEN [ok |-> TRUE,
              val |-> IF signed /\ t[1] = "-" THEN -DecimalValue(ds)
                      ELSE DecimalValue(ds)]
        ELSE [ok |-> FALSE, val |-> 0]

RECURSIVE ParseTokensStop(_, _, _)
\* a slip of ParseTokens: the loop ends at the first token int() refuses
ParseTokensStop(tokens, k, ids) ==
    IF k > Len(tokens) \/ ~PyInt(tokens[k]).ok THEN ids
    ELSE ParseTokensStop(tokens, k + 1, Append(ids, PyInt(tokens[k]).val))

RECURSIVE ParseTokens(_, _, _)
\* the for loop of the manual branch: try int(id), except continue
ParseTokens(tokens, k, ids) ==
    IF k > Len(tokens) THEN ids
    ELSE ParseTokens(tokens, k + 1,
            IF PyInt(tokens[k]).ok THEN Append(ids, PyInt(tokens[k]).val)
            ELSE ids)

\* get_markerids with marker_source "manual"
ManualIds(value) == ParseTokens(Split(value, ","), 1, <<>>)

(***************************************************************************)
(* get_markerids, auto mode: int() of the first colour channel, sorted     *)
(***************************************************************************)
\* a colour channel is a number, held here in tenths
ChannelValues == {20, 55, 90}

\* int(x) of a non-negative number truncates
IntCast(tenths) == tenths \div 10

RECURSIVE Insert(_, _)
Insert(sorted, x) ==
    IF sorted = <<>> THEN <<x>>
    ELSE IF x < sorted[1] THEN <<x>> \o sorted
    ELSE <<sorted[1]>> \o Insert(Tail(sorted), x)

\* a slip of Sorted: the list as it is
Unsorted(s) == s

RECURSIVE Sorted(_)
\* sorted(list): ascending, equal elements kept
Sorted(s) == IF s = <<>> THEN <<>> ELSE Insert(Sorted(SubSeq(s, 1, Len(s) - 1)), s[Len(s)])

\* the "structure" array: each point with color [r, g, b]
Point(r) == [color |-> <<r, 0, 0>>]

\* json.load(file).get("structure"), then the sorted list comprehension
AutoIds(doc) ==
    IF doc.hasStructure /\ doc.structure # <<>>
    THEN Sorted([k \in DOMAIN doc.structure |-> IntCast(doc.structure[k].color[1])])
    ELSE <<>>

ExampleStructure == <<Point(55), Point(20), Point(55), Point(90)>>

Structures ==
    {[k \in DOMAIN s |-> Point(s[k])] : s \in SeqsUpTo(ChannelValues, MaxStruct)}
    \cup {ExampleStructure}

JsonDocs == {[hasStructure |-> TRUE, structure |-> s] : s \in Structures}
            \cup {[hasStructure |-> FALSE, structure |-> <<>>]}

\* a markers.json left in the internal folder by an earlier run
StaleDoc == [hasStructure |-> TRUE, structure |-> <<Point(20)>>]

(***************************************************************************)
(* load_coords                                                             *)
(***************************************************************************)
\* chunk.node.coordinates.offset
Offset == [x |-> -1, y |-> -2, z |-> -3]

\* a row of the coordinate CSV: its fields (markerID, easting, northing,
\* elevation) and the columns that hold unquoted text that is no number
CoordRow(fields, text) == [fields |-> fields, text |-> text]

CoordRows == {CoordRow(<<2, 10, 20, 5>>, {}), CoordRow(<<5, 11, 21, 6>>, {}),
              CoordRow(<<9, 12, 22, 7>>, {}), CoordRow(<<5, 1>>, {}),
              CoordRow(<<0, 1>>, {1})}

CoordFiles == SeqsUpTo(CoordRows, MaxCoordRows)

\* the reader (quoting = QUOTE_NONNUMERIC) turns every unquoted field into
\* a float and raises ValueError on one that is no number
RowParses(row) == row.text = {}

RECURSIVE load_coords_from(_, _, _)
\* the for loop of load_coords: a row of fewer than 4 fields is passed over
load_coords_from(rows, k, acc) ==
    IF k > Len(rows) THEN acc
    ELSE load_coords_from(rows, k + 1,
            IF Len(rows[k].fields) < CoordCols THEN acc
            ELSE LET item == rows[k].fields
                 IN  [id \in DOMAIN acc \cup {item[1]} |->
                        IF id = item[1]
                        THEN <<item[2] + Offset.x, item[3] + Offset.y,
                               item[4] + Offset.z>>
                        ELSE acc[id]])

\* ok is FALSE where the csv reader raises ValueError
load_coords(file) ==
    IF ~file.exists THEN [ok |-> TRUE, table |-> <<>>]
    ELSE IF \E k \in DOMAIN file.content : ~RowParses(file.content[k])
    THEN [ok |-> FALSE, table |-> <<>>]
    ELSE [ok |-> TRUE, table |-> load_coords_from(file.content, 1, <<>>)]

(***************************************************************************)
(* processChunk: the join and build_markers_param                          *)
(***************************************************************************)
RECURSIVE JoinFrom(_, _, _, _)
\* {id: coords[id] for id in marker_ids}: a repeated id keeps its place
JoinFrom(ids, table, k, acc) ==
    IF k > Len(ids) THEN acc
    ELSE JoinFrom(ids, table, k + 1,
            IF \E j \in DOMAIN acc : acc[j].id = ids[k] THEN acc
            ELSE Append(acc, [id |-> ids[k], coord |-> table[ids[k]]]))

\* a slip of Join: coords.get(id), and an id without coordinates left out
JoinSkipMissing(ids, table) ==
    LET Has(id) == id \in DOMAIN table
    IN  [ok |-> TRUE, markers |-> JoinFrom(SelectSeq(ids, Has), table, 1, <<>>)]

\* ok is FALSE where coords[id] raises KeyError
Join(ids, table) ==
    IF \A k \in DOMAIN ids : ids[k] \in DOMAIN table
    THEN [ok |-> TRUE, markers |-> JoinFrom(ids, table, 1, <<>>)]
    ELSE [ok |-> FALSE, markers |-> <<>>]

\* build_markers_param: " --markers" and one entry "id:e,n,z" per item of
\* the dict, in its order (the number formatting is not modelled)
build_markers_param(m) == [k \in DOMAIN m |-> <<m[k].id, m[k].coord>>]

(***************************************************************************)
(* The log file and the error message                                      *)
(***************************************************************************)
LogTexts == SeqsUpTo({"a", "\n"}, MaxLog)

RECURSIVE Readlines(_)
\* logF.readlines(): the lines of the text, each with its line end
Readlines(text) ==
    IF text = <<>> THEN <<>>
    ELSE IF \A k \in DOMAIN text : text[k] # "\n" THEN <<text>>
    ELSE LET k == CHOOSE j \in DOMAIN text :
                    text[j] = "\n" /\ \A h \in 1..(j - 1) : text[h] # "\n"
         IN  <<SubSeq(text, 1, k)>> \o Readlines(SubSeq(text, k + 1, Len(text)))

RECURSIVE JoinLines(_)
\* ''.join(lines)
JoinLines(lines) == IF lines = <<>> THEN <<>> ELSE lines[1] \o JoinLines(Tail(lines))

\* 'Error on node "{}":\nLog:\n{}'.format(chunk.name, logContent)
ErrorWithLog(logContent) == <<"Error on node \"name\":\nLog:\n">> \o logContent

(***************************************************************************)
(* processChunk of SfMTransformFromMarker                                  *)
(***************************************************************************)
\* chunk.status.returnCode: not set, or the exit code
NoCode == [set |-> FALSE, code |-> 0]
Code(rc) == [set |-> TRUE, code |-> rc]

\* chunk.status.commandLine: not set, or the command of buildCommandLine
\* followed by the --markers parameter
NoCommand == [set |-> FALSE, markers |-> <<>>]
Command(m) == [set |-> TRUE, markers |-> m]

\* the manual lists the whole run is checked with
ManualSamples == {<<>>, <<"5">>, <<"2", ",", "9">>, <<"2", ",", "x", ",", "3">>}

\* the state of the node before processChunk, but for its inputs
TFresh ==
    /\ tpc = "start"
    /\ jsonRead = FALSE
    /\ convertProc = NoProc
    /\ transformProc = NoProc
    /\ subprocess = None
    /\ statProc = None
    /\ marker_ids = <<>>
    /\ coords = <<>>
    /\ markers = <<>>
    /\ markers_cmd = <<>>
    /\ commandLine = NoCommand
    /\ returnCode = NoCode
    /\ logFile = NoFile
    /\ terror = <<>>

TInit ==
    /\ marker_source \in {"auto", "manual"}
    /\ marker_ids_value \in IF marker_source = "manual" THEN ManualSamples ELSE {<<>>}
    /\ coordsFile \in {NoFile} \cup {File(c) : c \in CoordFiles}
    /\ markersJson \in {NoFile, File(StaleDoc)}
    /\ TFresh

\* the characters of the marker_ids strings
IdChars == {"3", "5", "7", "x", " ", ",", "-"}

\* the list of the specification's example: "3, x, 5,,7"
ExampleIds == <<"3", ",", " ", "x", ",", " ", "5", ",", ",", "7">>

TInitManual ==
    /\ marker_source = "manual"
    /\ marker_ids_value \in SeqsUpTo(IdChars, MaxIdsLen) \cup {ExampleIds}
    /\ coordsFile = NoFile
    /\ markersJson = NoFile
    /\ TFresh

\* the node with no run of it in progress
TIdle ==
    /\ marker_source = "manual"
    /\ marker_ids_value = <<>>
    /\ coordsFile = NoFile
    /\ markersJson = NoFile
    /\ TFresh

\* get_markerids, manual mode
TGetIdsManual ==
    /\ UNCHANGED ivars
    /\ tpc = "start"
    /\ marker_source # "auto"
    /\ marker_ids' = ManualIds(marker_ids_value)
    /\ tpc' = "load_coords"
    /\ UNCHANGED <<marker_source, marker_ids_value, coordsFile, markersJson,
                   jsonRead, convertProc, transformProc, subprocess, statProc,
                   coords, markers, markers_cmd, commandLine, returnCode,
                   logFile, terror>>

\* get_markerids, auto mode: psutil.Popen of aliceVision_convertSfMFormat,
\* which raises where the executable cannot be started
TSpawnConvert ==
    /\ UNCHANGED ivars
    /\ tpc = "start"
    /\ marker_source = "auto"
    /\ \E started \in BOOLEAN :
        IF started
        THEN /\ convertProc' = Running
             /\ subprocess' = "convert"
             /\ statProc' = "convert"
             /\ tpc' = "wait_convert"
             /\ UNCHANGED terror
        ELSE /\ tpc' = "raised"
             /\ terror' = <<"OSError">>
             /\ UNCHANGED <<convertProc, subprocess, statProc>>
    /\ UNCHANGED <<marker_source, marker_ids_value, coordsFile, markersJson,
                   jsonRead, transformProc, marker_ids, coords, markers,
                   markers_cmd, commandLine, returnCode, logFile>>

\* the structure-extraction process ends: with exit code 0 it has written
\* markers.json, with another one the file is as it was
ConvertExits ==
    /\ UNCHANGED ivars
    /\ convertProc.state = "running"
    /\ \E rc \in ExitCodes :
        /\ convertProc' = Exited(rc)
        /\ IF rc = 0
           THEN \E doc \in JsonDocs : markersJson' = File(doc)
           ELSE UNCHANGED markersJson
    /\ UNCHANGED <<tpc, marker_source, marker_ids_value, coordsFile, jsonRead,
                   transformProc, subprocess, statProc, marker_ids, coords,
                   markers, markers_cmd, commandLine, returnCode, logFile, terror>>

\* the comparison of line 209: the return code against itself
ConvertFailed(proc) ==
    LET return_code == proc.rc
    IN  proc.rc # return_code

\* get_markerids from the return of chunk.subprocess.wait() on
TWaitConvert ==
    /\ UNCHANGED ivars
    /\ tpc = "wait_convert"
    /\ convertProc.state = "exited"
    /\ IF ConvertFailed(convertProc)
       THEN /\ tpc' = "raised"
            /\ terror' = <<"RuntimeError">>
            /\ UNCHANGED <<jsonRead, marker_ids>>
       ELSE IF ~markersJson.exists
       THEN /\ tpc' = "raised"
            /\ terror' = <<"FileNotFoundError">>
            /\ UNCHANGED <<jsonRead, marker_ids>>
       ELSE /\ jsonRead' = TRUE
            /\ marker_ids' = AutoIds(markersJson.content)
            /\ tpc' = "load_coords"
            /\ UNCHANGED terror
    /\ UNCHANGED <<marker_source, marker_ids_value, coordsFile, markersJson,
                   convertProc, transformProc, subprocess, statProc, coords,
                   markers, markers_cmd, commandLine, returnCode, logFile>>

\* processChunk: load_coords
TLoadCoords ==
    /\ UNCHANGED ivars
    /\ tpc = "load_coords"
    /\ IF load_coords(coordsFile).ok
       THEN /\ coords' = load_coords(coordsFile).table
            /\ tpc' = "join"
            /\ UNCHANGED terror
       ELSE /\ tpc' = "raised"
            /\ terror' = <<"ValueError">>
            /\ UNCHANGED coords
    /\ UNCHANGED <<marker_source, marker_ids_value, coordsFile, markersJson,
                   jsonRead, convertProc, transformProc, subprocess, statProc,
                   marker_ids, markers, markers_cmd, commandLine, returnCode,
                   logFile>>

\* processChunk: the join of the ids with the table, build_markers_param
TJoinBuild ==
    /\ UNCHANGED ivars
    /\ tpc = "join"
    /\ IF Join(marker_ids, coords).ok
       THEN /\ markers' = Join(marker_ids, coords).markers
            /\ markers_cmd' = build_markers_param(markers')
            /\ tpc' = "invoke"
            /\ UNCHANGED terror
       ELSE /\ tpc' = "raised"
            /\ terror' = <<"KeyError">>
            /\ UNCHANGED <<markers, markers_cmd>>
    /\ UNCHANGED <<marker_source, marker_ids_value, coordsFile, markersJson,
                   jsonRead, convertProc, transformProc, subprocess, statProc,
                   marker_ids, coords, commandLine, returnCode, logFile>>

\* processChunk: the log file is opened for writing, the command line is
\* saved in the status, psutil.Popen of aliceVision_sfmTransform; where it
\* raises, the finally clause clears chunk.subprocess
TSpawnTransform ==
    /\ UNCHANGED ivars
    /\ tpc = "invoke"
    /\ logFile' = File(<<>>)
    /\ commandLine' = Command(markers_cmd)
    /\ \E started \in BOOLEAN :
        IF started
        THEN /\ transformProc' = Running
             /\ subprocess' = "transform"
             /\ statProc' = "transform"
             /\ tpc' = "wait_transform"
             /\ UNCHANGED terror
        ELSE /\ subprocess' = None
             /\ tpc' = "raised"
             /\ terror' = <<"OSError">>
             /\ UNCHANGED <<transformProc, statProc>>
    /\ UNCHANGED <<marker_source, marker_ids_value, coordsFile, markersJson,
                   jsonRead, convertProc, marker_ids, coords, markers,
                   markers_cmd, returnCode>>

\* the transform process ends, having written its output to the log file
TransformExits ==
    /\ UNCHANGED ivars
    /\ transformProc.state = "running"
    /\ \E rc \in ExitCodes, text \in LogTexts :
        /\ transformProc' = Exited(rc)
        /\ logFile' = File(text)
    /\ UNCHANGED <<tpc, marker_source, marker_ids_value, coordsFile, markersJson,
                   jsonRead, convertProc, subprocess, statProc, marker_ids,
                   coords, markers, markers_cmd, commandLine, returnCode, terror>>

\* a slip of TransformError: logF.readline() for logF.readlines()
TransformErrorFirstLine(rc, file) ==
    IF rc # 0
    THEN ErrorWithLog(IF file.content = <<>> THEN <<>> ELSE Readlines(file.content)[1])
    ELSE <<>>

\* the error raised after the transform process ended with code rc, given
\* the log file: <<>> stands for no error
TransformError(rc, file) ==
    IF rc # 0 THEN ErrorWithLog(JoinLines(Readlines(file.content))) ELSE <<>>

\* processChunk from the return of communicate() and wait() on
TWaitTransform ==
    /\ UNCHANGED ivars
    /\ tpc = "wait_transform"
    /\ transformProc.state = "exited"
    /\ returnCode' = Code(transformProc.rc)
    /\ terror' = TransformError(transformProc.rc, logFile)
    /\ tpc' = IF terror' # <<>> THEN "raised" ELSE "done"
    /\ subprocess' = None
    /\ UNCHANGED <<marker_source, marker_ids_value, coordsFile, markersJson,
                   jsonRead, convertProc, transformProc, statProc, marker_ids,
                   coords, markers, markers_cmd, commandLine, logFile>>

TNext ==
    \/ TGetIdsManual
    \/ TSpawnConvert
    \/ ConvertExits
    \/ TWaitConvert
    \/ TLoadCoords
    \/ TJoinBuild
    \/ TSpawnTransform
    \/ TransformExits
    \/ TWaitTransform

(***************************************************************************)
(* The specifications                                                      *)
(***************************************************************************)
\* ImportMarkerFeatures.processChunk, the other node at rest
InitImport == IInit /\ TIdle

SpecImport == InitImport /\ [][INext]_vars

\* SfMTransformFromMarker.processChunk, the other node at rest
InitTransform == TInit /\ IIdle

SpecTransform == InitTransform /\ [][TNext]_vars

\* get_markerids in manual mode, over every short marker_ids string
InitManual == TInitManual /\ IIdle

NextManual == TGetIdsManual

SpecManual == InitManual /\ [][NextManual]_vars

(***************************************************************************)
(* Properties of ImportMarkerFeatures                                      *)
(***************************************************************************)
\* image i of the loaded detections has a view
Resolved(i) == images[i].name \in DOMAIN lookup
ViewOf(i) == lookup[images[i].name]

\* the marker ids of image i, in CSV row order
IdsOf(i) == [k \in DOMAIN images[i].markers |-> images[i].markers[k][4]]

InRange(id) == 0 <= id /\ id < DescLen

AllInRange(i) == \A k \in DOMAIN IdsOf(i) : InRange(IdsOf(i)[k])

\* image i has a view and a marker id that is no index of a 128-byte
\* array, counted from either end
Aborts(i) ==
    /\ Resolved(i)
    /\ \E k \in DOMAIN IdsOf(i) : IdsOf(i)[k] >= DescLen \/ IdsOf(i)[k] < -DescLen

\* no image before image i, in loop order, ends the loop
Reached(i) == \A j \in 1..(i - 1) : ~Aborts(j)

\* write_describers has returned or raised
WriteEnded == ipc = "done" \/ (ipc = "raised" /\ imgIdx >= 1)

RECURSIVE CountValue(_)
\* the number whose bytes, least significant first, are b
CountValue(b) == IF b = <<>> THEN 0 ELSE b[1] + 256 * CountValue(Tail(b))

\* file f is the descriptor file of the marker ids: the count in 8 bytes,
\* then one record of DescLen bytes per id, 255 at offset id and 0 elsewhere
DescriptorFileOf(f, ids) ==
    /\ f.exists
    /\ Len(f.content) = 8 + DescLen * Len(ids)
    /\ CountValue(SubSeq(f.content, 1, 8)) = Len(ids)
    /\ \A j \in DOMAIN ids : \A o \in 0..(DescLen - 1) :
          f.content[8 + DescLen * (j - 1) + o + 1] = IF o = ids[j] THEN 255 ELSE 0

\* C1, as stated: when write_describers ends, every image that has a view
\* and only marker ids in 0..127 has its descriptor file: the count, then one
\* one-hot record per detection in row order, 8 + 128 * N bytes.
C1_EveryGoodImageHasDescriptor ==
    WriteEnded =>
        \A i \in DOMAIN images :
            (Resolved(i) /\ AllInRange(i))
                => DescriptorFileOf(descFiles[ViewOf(i)], IdsOf(i))

\* C1, amended: the same of every such image that the loop reaches, that is,
\* with no image before it that has a view and a marker id >= 128 or < -128
\* (which raises IndexError and ends write_describers); the file is complete
\* from the moment the loop has passed the image.
C1_ReachedGoodImageHasDescriptor ==
    \A i \in DOMAIN images :
        (Resolved(i) /\ AllInRange(i)) =>
            /\ (imgIdx > i => DescriptorFileOf(descFiles[ViewOf(i)], IdsOf(i)))
            /\ (WriteEnded /\ Reached(i)
                    => DescriptorFileOf(descFiles[ViewOf(i)], IdsOf(i)))

\* C1's case: write_describers returned and an image of two detections with
\* different ids in range has its descriptor file
C1_Witness ==
    /\ ipc = "done"
    /\ \E i \in DOMAIN images :
        /\ Resolved(i) /\ AllInRange(i)
        /\ Len(IdsOf(i)) >= 2 /\ IdsOf(i)[1] # IdsOf(i)[2]
        /\ descFiles[ViewOf(i)].exists

\* C2: a step of the marker loop at a marker whose id is outside 0..127
\* raises, and writes no record to the descriptor file.
C2_OutOfRangeIdRaises ==
    [][(/\ ipc = "marker"
        /\ mkIdx <= Len(images[imgIdx].markers)
        /\ ~InRange(images[imgIdx].markers[mkIdx][4]))
          => (ipc' = "raised" /\ desc' = desc)]_vars

\* the files of image i are complete: one feature line per detection, the
\* count and one record per detection
HasFiles(i) ==
    /\ featFiles[ViewOf(i)].exists
    /\ Len(featFiles[ViewOf(i)].content) = Len(IdsOf(i))
    /\ descFiles[ViewOf(i)].exists
    /\ Len(descFiles[ViewOf(i)].content) = 8 + DescLen * Len(IdsOf(i))

\* no file of the output folder is of an image without a view, and the loop
\* does not raise at such an image
NothingForUnresolved ==
    /\ \A v \in ViewIds :
        (featFiles[v].exists \/ descFiles[v].exists)
            => \E i \in DOMAIN images : Resolved(i) /\ ViewOf(i) = v
    /\ (ipc = "raised" /\ imgIdx >= 1) => Resolved(imgIdx)

\* C5, as stated: an image without a view gets no file and raises nothing,
\* and when write_describers ends every image that has a view has both its
\* files (here: the files exist).
C5_EveryResolvedImageHasFiles ==
    /\ NothingForUnresolved
    /\ WriteEnded =>
        \A i \in DOMAIN images :
            Resolved(i) =>
                featFiles[ViewOf(i)].exists /\ descFiles[ViewOf(i)].exists

\* C5, amended: an image without a view gets no file and raises nothing, and
\* every image with a view that the loop reaches and that does not itself
\* hold a marker id >= 128 or < -128 has both its files, complete, wherever
\* the images without a view stand in the CSV.
C5_ReachedResolvedImageHasFiles ==
    /\ NothingForUnresolved
    /\ WriteEnded =>
        \A i \in DOMAIN images :
            (Resolved(i) /\ Reached(i) /\ ~Aborts(i)) => HasFiles(i)

\* C5's case: write_describers returned, an image without a view stands
\* before an image with one, and that one has its files
C5_Witness ==
    /\ ipc = "done"
    /\ \E i, j \in DOMAIN images :
        i < j /\ ~Resolved(i) /\ Resolved(j) /\ HasFiles(j)

FiveColumns(row) == Len(row) >= ImageCols

FourFields(row) == Len(row.fields) >= CoordCols

\* C6: neither loader fails on a row of fewer columns than it requires (5
\* of the marker-detection CSV, 4 of the coordinate CSV), and each returns
\* what the other rows hold.
C6_ShortRowsSkipped ==
    /\ ipc = "raised" => ierror # "IndexError: list index out of range"
    /\ ipc \in {"write_describers", "image", "marker", "done"}
          => images = load_images(SelectSeq(matchesFile.content, FiveColumns))
    /\ (tpc \in {"join", "invoke", "wait_transform", "done"} /\ coordsFile.exists)
          => coords = load_coords_from(SelectSeq(coordsFile.content, FourFields),
                                       1, <<>>)

(***************************************************************************)
(* Properties of SfMTransformFromMarker                                    *)
(***************************************************************************)
\* C3: once the structure-extraction process has ended with a non-zero
\* code and get_markerids has gone on from its wait, the run has failed,
\* markers.json was not read, no id was returned and the transform process
\* was not started.
C3_ConvertFailureRaises ==
    (convertProc.state = "exited" /\ convertProc.rc # 0 /\ tpc # "wait_convert")
        => /\ tpc = "raised"
           /\ ~jsonRead
           /\ marker_ids = <<>>
           /\ transformProc.state = "none"

\* an id of the list has no entry in the coordinate table
SomeIdMissing == \E k \in DOMAIN marker_ids : marker_ids[k] \notin DOMAIN coords

\* C4: the join of a list with an id that has no entry in the table fails:
\* no --markers string, no command line, no transform process.  A step that
\* sets the command line or starts the transform process finds every id of
\* the list in the table, with its entry of the table in --markers; and no
\* step follows a failure.
C4_MissingCoordinateFails ==
    [][/\ (tpc = "join" /\ SomeIdMissing)
            => /\ tpc' = "raised" /\ terror' # <<>>
               /\ markers' = <<>> /\ markers_cmd' = <<>>
               /\ ~commandLine'.set
               /\ transformProc'.state = "none"
       /\ (commandLine'.set \/ transformProc'.state # "none")
            => \A k \in DOMAIN marker_ids :
                /\ marker_ids[k] \in DOMAIN coords
                /\ \E j \in DOMAIN commandLine'.markers :
                      commandLine'.markers[j] = <<marker_ids[k], coords[marker_ids[k]]>>
       /\ tpc # "raised"]_vars

\* C4's case: the coordinate file is absent, the list is not empty, and the
\* run failed at the join
C4_Witness ==
    /\ tpc = "raised" /\ terror = <<"KeyError">>
    /\ ~coordsFile.exists
    /\ marker_ids # <<>>
    /\ ~commandLine.set /\ transformProc.state = "none"

\* the positions of the tokens of the marker_ids string that int() accepts
IntTokens(value) ==
    {k \in DOMAIN Split(value, ",") : PyInt(Split(value, ",")[k]).ok}

\* C7: in manual mode get_markerids returns the values of the tokens that
\* parse as integers, each once, in the order of the string; "3, x, 5,,7"
\* gives [3, 5, 7].
C7_ManualIdsInOrder ==
    (marker_source = "manual" /\ tpc # "start") =>
        /\ Len(marker_ids) = Cardinality(IntTokens(marker_ids_value))
        /\ \A k \in IntTokens(marker_ids_value) :
              marker_ids[Cardinality({j \in IntTokens(marker_ids_value) : j <= k})]
                = PyInt(Split(marker_ids_value, ",")[k]).val
        /\ marker_ids_value = ExampleIds => marker_ids = <<3, 5, 7>>

\* C7's case: the example string was parsed
C7_Witness ==
    /\ marker_source = "manual" /\ tpc = "load_coords"
    /\ marker_ids_value = ExampleIds
    /\ marker_ids = <<3, 5, 7>>

\* the integer casts of the first colour channels of the structure array
Casts == [k \in DOMAIN markersJson.content.structure |->
            IntCast(markersJson.content.structure[k].color[1])]

Count(s, v) == Cardinality({k \in DOMAIN s : s[k] = v})

\* the ids of the entries of the --markers parameter
CmdIds == [k \in DOMAIN markers_cmd |-> markers_cmd[k][1]]

\* the --markers parameter was built
CmdBuilt == tpc \in {"invoke", "wait_transform", "done"} \/ commandLine.set

\* C8, as stated: the list get_markerids returns in auto mode holds the
\* casts in ascending order, each once, and --markers follows that list.
C8_AutoIdsSortedUnique ==
    (marker_source = "auto" /\ jsonRead) =>
        /\ Range(marker_ids) = Range(Casts)
        /\ \A k \in 1..(Len(marker_ids) - 1) : marker_ids[k] < marker_ids[k + 1]
        /\ CmdBuilt => CmdIds = marker_ids

\* C8, amended: the list get_markerids returns holds the cast of every
\* entry in ascending order, an id as often as it occurs ([5, 2, 5, 9]
\* gives [2, 5, 5, 9]); the join drops the repeats, so the entries of
\* --markers are in ascending order with each id once ([2, 5, 9]).
C8_AutoIdsSortedJoinUnique ==
    (marker_source = "auto" /\ jsonRead) =>
        /\ Len(marker_ids) = Len(Casts)
        /\ \A v \in Range(Casts) \cup Range(marker_ids) :
              Count(marker_ids, v) = Count(Casts, v)
        /\ \A k \in 1..(Len(marker_ids) - 1) : marker_ids[k] <= marker_ids[k + 1]
        /\ markersJson.content.structure = ExampleStructure
              => marker_ids = <<2, 5, 5, 9>>
        /\ CmdBuilt =>
            /\ Range(CmdIds) = Range(Casts)
            /\ \A k \in 1..(Len(CmdIds) - 1) : CmdIds[k] < CmdIds[k + 1]
            /\ markersJson.content.structure = ExampleStructure
                  => CmdIds = <<2, 5, 9>>

\* C8's case: the example structure was read and --markers built from it
C8_Witness ==
    /\ marker_source = "auto" /\ jsonRead /\ CmdBuilt
    /\ markersJson.content.structure = ExampleStructure
    /\ CmdIds = <<2, 5, 9>>

\* C9: the exit code is recorded only of a process that has ended, and is
\* its exit code; past the wait, a non-zero code has raised an error that
\* ends with the whole text of the log file, and code 0 has raised none.
C9_TransformFailureCarriesLog ==
    /\ returnCode.set =>
        transformProc.state = "exited" /\ returnCode.code = transformProc.rc
    /\ (transformProc.state = "exited" /\ tpc # "wait_transform") =>
        /\ returnCode = Code(transformProc.rc)
        /\ transformProc.rc # 0 =>
            /\ tpc = "raised"
            /\ Len(terror) > Len(logFile.content)
            /\ IsSuffix(logFile.content, terror)
        /\ transformProc.rc = 0 => (tpc = "done" /\ terror = <<>>)

\* C9's case: the transform process failed with a log of two lines
C9_Witness ==
    /\ tpc = "raised"
    /\ transformProc.state = "exited" /\ transformProc.rc # 0
    /\ Len(Readlines(logFile.content)) = 2
    /\ returnCode.set

\* C10: when processChunk has returned or raised, chunk.subprocess is None.
C10_SubprocessCleared ==
    tpc \in {"done", "raised"} => subprocess = None

(***************************************************************************)
(* The markers report of ImportMarkerFeatures                              *)
(***************************************************************************)
\* the marker ids of the loaded detections
LoadedIds == UNION {Range(IdsOf(i)) : i \in DOMAIN images}

\* the images with a view that hold marker id
ViewsWith(id) == {i \in DOMAIN images : Resolved(i) /\ id \in Range(IdsOf(i))}

\* C11: when write_describers has returned, the summary has an entry for
\* every marker id of the loaded detections, those of images without a view
\* included, and the count of an id is the number of images with a view
\* that hold it, however often an image holds it.
C11_SummaryCountsViews ==
    ipc = "done" =>
        /\ DOMAIN found_markers = LoadedIds
        /\ \A id \in LoadedIds : found_markers[id] = Cardinality(ViewsWith(id))

=============================================================================
